---- MODULE Spec2Model ----
(***************************************************************************)
(* The E-M loop of notebooks/NB16_CXIII-EM_coin_toss.ipynb (two coins of   *)
(* unknown bias, the coin of each experiment hidden), as a state machine.  *)
(*                                                                         *)
(* Arithmetic.  The notebook computes in IEEE binary floating point        *)
(* (numpy.float64).  The model keeps the IEEE semantics - a signed         *)
(* significand and an exponent, round-to-nearest-even after every          *)
(* operation, +-inf, NaN, 0/0 = NaN, x/0 = inf, comparisons with NaN false *)
(* - with a significand of MantBits bits instead of 53 and an unbounded    *)
(* exponent (no overflow, no underflow).                                   *)
(***************************************************************************)
EXTENDS Integers, Sequences, FiniteSets, TLC

\* Significand width of the modelled floating point format (53 in float64).
MantBits == 8

\* Largest number of experiments handed to the loop (num_exp).
MaxExp == 2

\* num_coin_toss = 10: tosses per experiment.
num_coin_toss == 10

\* np.zeros(100): length of the preallocated traces pA_heads, pB_heads.
TraceLen == 100

----------------------------------------------------------------------------
(* numpy.float64 values *)

Fin(m, e) == [k |-> "fin", m |-> m, e |-> e]
NaN == [k |-> "nan", m |-> 0, e |-> 0]
Inf(s) == [k |-> "inf", m |-> s, e |-> 0]
Zero == Fin(0, 0)
\* a local that has not been assigned yet
Unset == [k |-> "unset", m |-> 0, e |-> 0]

IsNaN(a) == a.k = "nan"
IsInf(a) == a.k = "inf"
IsFin(a) == a.k = "fin"
IsZero(a) == a.k = "fin" /\ a.m = 0

AbsInt(n) == IF n < 0 THEN -n ELSE n
SgnInt(n) == IF n < 0 THEN -1 ELSE 1

\* number of binary digits of n >= 1
BitLen(n) == CHOOSE b \in 1..30 : 2^(b-1) <= n /\ n < 2^b

\* M * 2^E rounded to MantBits significant bits, ties to even
Round(M, E) ==
    IF M = 0 THEN Zero
    ELSE LET s == SgnInt(M)
             A == AbsInt(M)
             sh == BitLen(A) - MantBits
         IN  IF sh <= 0
             THEN Fin(s * A * 2^(-sh), E + sh)
             ELSE LET q == A \div 2^sh
                      r == A % 2^sh
                      half == 2^(sh-1)
                      q1 == IF r > half \/ (r = half /\ q % 2 = 1)
                            THEN q + 1 ELSE q
                  IN  IF q1 = 2^MantBits
                      THEN Fin(s * 2^(MantBits-1), E + sh + 1)
                      ELSE Fin(s * q1, E + sh)

\* conversion of a Python int to float
FromInt(n) == Round(n, 0)
One == FromInt(1)

Neg(a) ==
    IF IsNaN(a) THEN NaN
    ELSE IF IsInf(a) THEN Inf(-a.m)
    ELSE Fin(-a.m, a.e)

Abs(a) ==
    IF IsNaN(a) THEN NaN
    ELSE IF IsInf(a) THEN Inf(1)
    ELSE Fin(AbsInt(a.m), a.e)

\* a * b
Mul(a, b) ==
    IF IsNaN(a) \/ IsNaN(b) THEN NaN
    ELSE IF IsInf(a) \/ IsInf(b)
         THEN IF IsZero(a) \/ IsZero(b) THEN NaN
              ELSE Inf(SgnInt(a.m) * SgnInt(b.m))
    ELSE Round(a.m * b.m, a.e + b.e)

\* a / b, with numpy's results for a zero divisor (a warning, no exception)
Div(a, b) ==
    IF IsNaN(a) \/ IsNaN(b) THEN NaN
    ELSE IF IsInf(a)
         THEN IF IsInf(b) THEN NaN ELSE Inf(SgnInt(a.m) * SgnInt(b.m))
    ELSE IF IsInf(b) THEN Zero
    ELSE IF IsZero(b)
         THEN IF IsZero(a) THEN NaN ELSE Inf(SgnInt(a.m))
    ELSE IF IsZero(a) THEN Zero
    ELSE LET N == AbsInt(a.m) * 2^(MantBits+1)
             D == AbsInt(b.m)
             q == N \div D
             sticky == IF N % D = 0 THEN 0 ELSE 1
         IN  Round(SgnInt(a.m) * SgnInt(b.m) * (2*q + sticky),
                   a.e - b.e - MantBits - 2)

\* a + b for finite non-zero a, b with a.e >= b.e
AddAligned(a, b) ==
    IF a.e - b.e > MantBits + 1 THEN a
    ELSE Round(a.m * 2^(a.e - b.e) + b.m, b.e)

\* a + b
Add(a, b) ==
    IF IsNaN(a) \/ IsNaN(b) THEN NaN
    ELSE IF IsInf(a) /\ IsInf(b) THEN (IF a.m = b.m THEN a ELSE NaN)
    ELSE IF IsInf(a) THEN a
    ELSE IF IsInf(b) THEN b
    ELSE IF IsZero(a) THEN b
    ELSE IF IsZero(b) THEN a
    ELSE IF a.e >= b.e THEN AddAligned(a, b) ELSE AddAligned(b, a)

\* a - b
Sub(a, b) == Add(a, Neg(b))

\* a > b (False when either is NaN)
Gt(a, b) ==
    LET d == Sub(a, b)
    IN  IF IsNaN(a) \/ IsNaN(b) THEN FALSE
        ELSE IF IsInf(a) /\ IsInf(b) THEN a.m > b.m
        ELSE d.m > 0

\* a <= b (False when either is NaN)
Le(a, b) == ~IsNaN(a) /\ ~IsNaN(b) /\ ~Gt(a, b)

\* the float nearest to the decimal literal num/den
FromRatio(num, den) == Div(FromInt(num), FromInt(den))

\* x ** n for an integer-valued exponent n >= 0, as n rounded products (the
\* C library's pow rounds once): x**0 is 1.0 for every x, nan included
RECURSIVE PowNat(_, _)
PowNat(x, n) == IF n = 0 THEN One ELSE Mul(PowNat(x, n-1), x)

\* x ** n for an integer-valued exponent
Pow(x, n) == IF n >= 0 THEN PowNat(x, n) ELSE Div(One, PowNat(x, -n))

----------------------------------------------------------------------------
(* the notebook *)

\* scipy.special.comb(n, k, exact=True): 0 when k < 0 or k > n
RECURSIVE comb(_, _)
comb(n, k) ==
    IF k < 0 \/ k > n THEN 0
    ELSE IF k = 0 THEN 1
    ELSE (comb(n, k-1) * (n - k + 1)) \div k

\* def compute_likelihood(obs, n, pheads)
compute_likelihood(obs, n, pheads) ==
    Mul(Mul(FromInt(comb(n, obs)), Pow(pheads, obs)),
        Pow(Sub(One, pheads), n - obs))

\* sum of a sequence of floats, left to right from 0
RECURSIVE SeqSum(_)
SeqSum(a) ==
    IF Len(a) = 0 THEN Zero
    ELSE Add(SeqSum(SubSeq(a, 1, Len(a)-1)), a[Len(a)])

\* column c of a (num_exp, 2) array
Column(arr, c) == [r \in 1..Len(arr) |-> arr[r][c]]

\* the array flattened in C order
RECURSIVE Flat(_)
Flat(arr) ==
    IF Len(arr) = 0 THEN <<>>
    ELSE Flat(SubSeq(arr, 1, Len(arr)-1)) \o arr[Len(arr)]

\* r[k] += a[i+k] for each full block of 8 after the first
RECURSIVE Lanes(_, _, _)
Lanes(a, r, i) ==
    IF i + 8 > Len(a) - (Len(a) % 8) THEN r
    ELSE Lanes(a, [l \in 1..8 |-> Add(r[l], a[i + l])], i + 8)

\* numpy's pairwise summation of n contiguous doubles (n <= 128): a plain
\* loop under 8 elements, else 8 lanes, a tree over the lanes, then the tail
NpSumFlat(a) ==
    IF Len(a) < 8 THEN SeqSum(a)
    ELSE LET r == Lanes(a, SubSeq(a, 1, 8), 8)
             tree == Add(Add(Add(r[1], r[2]), Add(r[3], r[4])),
                         Add(Add(r[5], r[6]), Add(r[7], r[8])))
             full == Len(a) - (Len(a) % 8)
         IN  SeqSum(<<tree>> \o SubSeq(a, full + 1, Len(a)))

\* np.sum(expectation, axis = 0)[0] / np.sum(expectation)
MStepTheta(expectation) ==
    Div(SeqSum(Column(expectation, 1)), NpSumFlat(Flat(expectation)))

\* sum(expectation)[0] / sum(sum(expectation)), for a non-empty array
TraceEntry(expectation) ==
    Div(SeqSum(Column(expectation, 1)),
        Add(SeqSum(Column(expectation, 1)), SeqSum(Column(expectation, 2))))

\* Python's max over the two-element array [x, y]
PyMax(x, y) == IF Gt(y, x) THEN y ELSE x

\* max(abs(np.array([a1, b1]) - np.array([a0, b0])))
Improvement(a1, b1, a0, b0) == PyMax(Abs(Sub(a1, a0)), Abs(Sub(b1, b0)))

----------------------------------------------------------------------------
(* state *)

VARIABLES
    head_counts,     \* heads observed in each experiment
    tail_counts,     \* num_coin_toss - head_counts
    pA_heads,        \* trace of the estimates of coin A: the slots of the
                     \* array np.zeros(TraceLen) up to the last one written
    pB_heads,        \* trace of the estimates of coin B, likewise
    epsilon,         \* error threshold
    j,               \* iteration counter
    improvement,     \* change of the estimates in the last cycle
    i,               \* index of the experiment the for loop is at (from 1)
    lA, lB,          \* likelihoods of the last experiment visited
    weightA, weightB,\* responsibilities of the last experiment visited
    expectation_A,   \* per experiment <<weighted heads, weighted tails>> of A
    expectation_B,
    theta_A, theta_B,\* estimates of the last M step
    printed,         \* what the final printout reports
    cycles,          \* number of M steps executed (history)
    err,             \* exception that ended the cell, or "none"
    pc               \* position in the cell

vars == <<head_counts, tail_counts, pA_heads, pB_heads, epsilon, j,
          improvement, i, lA, lB, weightA, weightB, expectation_A,
          expectation_B, theta_A, theta_B, printed, cycles, err, pc>>

\* head counts the caller may hand over: no heads, nine, all heads, and one
\* more than there are tosses (an illegal record, its tail count is -1)
HeadChoices == {0, 9, num_coin_toss, num_coin_toss + 1}

\* initial guesses pA_heads[0], pB_heads[0]: the notebook's 0.60 and 0.50 and
\* the two ends of [0,1]
GuessChoices == {Zero, FromRatio(1, 2), FromRatio(6, 10), One}

\* error thresholds: the notebook's 0.001 and a coarse one
EpsilonChoices == {FromRatio(1, 1000), FromRatio(1, 10)}

\* all sequences over S of length 0..n
SeqsUpTo(S, n) == UNION {[1..l -> S] : l \in 0..n}

\* number of experiments
num_exp == Len(head_counts)

\* arr[n] for a trace array: a slot past the written ones still holds the
\* 0.0 of np.zeros
Slot(arr, n) == IF n < Len(arr) THEN arr[n+1] ELSE Zero

\* the trace array after arr[n] = v, for n < TraceLen
SetSlot(arr, n, v) ==
    [s \in 1..(IF n < Len(arr) THEN Len(arr) ELSE n + 1) |->
        IF s = n + 1 THEN v ELSE Slot(arr, s - 1)]

\* np.zeros((num_exp, 2))
ZeroRows == [r \in 1..num_exp |-> <<Zero, Zero>>]

\* the controller state of section 4.4 the cell is in
status ==
    IF err # "none" THEN err
    ELSE IF pc \in {"report", "done"} THEN "CONVERGED"
    ELSE IF pc = "while" /\ j = 0 THEN "INITIALIZED"
    ELSE "ITERATING"

Init ==
    /\ head_counts \in SeqsUpTo(HeadChoices, MaxExp)
    /\ tail_counts = [r \in 1..Len(head_counts) |-> num_coin_toss - head_counts[r]]
    /\ \E a \in GuessChoices, b \in GuessChoices :
          /\ pA_heads = SetSlot(<<>>, 0, a)
          /\ pB_heads = SetSlot(<<>>, 0, b)
    /\ epsilon \in EpsilonChoices
    /\ j = 0
    /\ improvement = Inf(1)
    /\ i = 1
    /\ lA = Unset /\ lB = Unset /\ weightA = Unset /\ weightB = Unset
    /\ expectation_A = <<>> /\ expectation_B = <<>>
    /\ theta_A = Unset /\ theta_B = Unset
    /\ printed = [iteration |-> -1, theta_A |-> Unset, theta_B |-> Unset]
    /\ cycles = 0
    /\ err = "none"
    /\ pc = "while"

----------------------------------------------------------------------------
(* steps of the cell *)

\* while (improvement > epsilon): true, the body starts with fresh arrays
WhileEnter ==
    /\ pc = "while"
    /\ Gt(improvement, epsilon)
    /\ expectation_A' = ZeroRows
    /\ expectation_B' = ZeroRows
    /\ i' = 1
    /\ pc' = "for"
    /\ UNCHANGED <<head_counts, tail_counts, pA_heads, pB_heads, epsilon, j,
                   improvement, lA, lB, weightA, weightB, theta_A, theta_B,
                   printed, cycles, err>>

\* while (improvement > epsilon): false, the loop is left
WhileExit ==
    /\ pc = "while"
    /\ ~Gt(improvement, epsilon)
    /\ pc' = "report"
    /\ UNCHANGED <<head_counts, tail_counts, pA_heads, pB_heads, epsilon, j,
                   improvement, i, lA, lB, weightA, weightB, expectation_A,
                   expectation_B, theta_A, theta_B, printed, cycles, err>>

\* one pass of the for loop: the E step of experiment i
EStep ==
    /\ pc = "for"
    /\ i <= num_exp
    /\ LET eH == head_counts[i]
           eT == tail_counts[i]
           la == compute_likelihood(eH, num_coin_toss, Slot(pA_heads, j))
           lb == compute_likelihood(eH, num_coin_toss, Slot(pB_heads, j))
           wA == Div(la, Add(la, lb))
           wB == Div(lb, Add(la, lb))
       IN  /\ lA' = la
           /\ lB' = lb
           /\ weightA' = wA
           /\ weightB' = wB
           /\ expectation_A' = [expectation_A EXCEPT
                 ![i] = <<Mul(wA, FromInt(eH)), Mul(wA, FromInt(eT))>>]
           /\ expectation_B' = [expectation_B EXCEPT
                 ![i] = <<Mul(wB, FromInt(eH)), Mul(wB, FromInt(eT))>>]
    /\ i' = i + 1
    /\ UNCHANGED <<head_counts, tail_counts, pA_heads, pB_heads, epsilon, j,
                   improvement, theta_A, theta_B, printed, cycles, err, pc>>

\* M step: theta_A, theta_B from np.sum, then the progress line is printed
MStep ==
    /\ pc = "for"
    /\ i > num_exp
    /\ theta_A' = MStepTheta(expectation_A)
    /\ theta_B' = MStepTheta(expectation_B)
    /\ cycles' = cycles + 1
    /\ pc' = "store"
    /\ UNCHANGED <<head_counts, tail_counts, pA_heads, pB_heads, epsilon, j,
                   improvement, i, lA, lB, weightA, weightB, expectation_A,
                   expectation_B, printed, err>>

\* StoreTrace writing slot j, the slot the E step has just read, instead of
\* slot j+1
StoreTraceOffByOne ==
    /\ pc = "store"
    /\ num_exp > 0
    /\ j + 1 < TraceLen
    /\ pA_heads' = SetSlot(pA_heads, j, TraceEntry(expectation_A))
    /\ pB_heads' = SetSlot(pB_heads, j, TraceEntry(expectation_B))
    /\ pc' = "update"
    /\ UNCHANGED <<head_counts, tail_counts, epsilon, j, improvement, i, lA,
                   lB, weightA, weightB, expectation_A, expectation_B,
                   theta_A, theta_B, printed, cycles, err>>

\* pA_heads[j+1] = ...; pB_heads[j+1] = ...
StoreTrace ==
    /\ pc = "store"
    /\ num_exp > 0
    /\ j + 1 < TraceLen
    /\ pA_heads' = SetSlot(pA_heads, j + 1, TraceEntry(expectation_A))
    /\ pB_heads' = SetSlot(pB_heads, j + 1, TraceEntry(expectation_B))
    /\ pc' = "update"
    /\ UNCHANGED <<head_counts, tail_counts, epsilon, j, improvement, i, lA,
                   lB, weightA, weightB, expectation_A, expectation_B,
                   theta_A, theta_B, printed, cycles, err>>

\* pA_heads[j+1] with j+1 = 100: IndexError, the cell stops
StoreIndexError ==
    /\ pc = "store"
    /\ num_exp > 0
    /\ j + 1 >= TraceLen
    /\ err' = "IndexError"
    /\ pc' = "raised"
    /\ UNCHANGED <<head_counts, tail_counts, pA_heads, pB_heads, epsilon, j,
                   improvement, i, lA, lB, weightA, weightB, expectation_A,
                   expectation_B, theta_A, theta_B, printed, cycles>>

\* sum(expectation_A) of an array without rows is the int 0, and 0[0] is a
\* TypeError: the cell stops
StoreTypeError ==
    /\ pc = "store"
    /\ num_exp = 0
    /\ err' = "TypeError"
    /\ pc' = "raised"
    /\ UNCHANGED <<head_counts, tail_counts, pA_heads, pB_heads, epsilon, j,
                   improvement, i, lA, lB, weightA, weightB, expectation_A,
                   expectation_B, theta_A, theta_B, printed, cycles>>

\* improvement = max(abs(...)); j = j+1
Update ==
    /\ pc = "update"
    /\ improvement' = Improvement(Slot(pA_heads, j+1), Slot(pB_heads, j+1),
                                  Slot(pA_heads, j), Slot(pB_heads, j))
    /\ j' = j + 1
    /\ pc' = "while"
    /\ UNCHANGED <<head_counts, tail_counts, pA_heads, pB_heads, epsilon, i,
                   lA, lB, weightA, weightB, expectation_A, expectation_B,
                   theta_A, theta_B, printed, cycles, err>>

\* END of E-M: 'E-M converges at iteration j', theta_A, theta_B
Report ==
    /\ pc = "report"
    /\ printed' = [iteration |-> j, theta_A |-> theta_A, theta_B |-> theta_B]
    /\ pc' = "done"
    /\ UNCHANGED <<head_counts, tail_counts, pA_heads, pB_heads, epsilon, j,
                   improvement, i, lA, lB, weightA, weightB, expectation_A,
                   expectation_B, theta_A, theta_B, cycles, err>>

Next ==
    \/ WhileEnter
    \/ WhileExit
    \/ EStep
    \/ MStep
    \/ StoreTrace
    \/ StoreIndexError
    \/ StoreTypeError
    \/ Update
    \/ Report

Spec == Init /\ [][Next]_vars

----------------------------------------------------------------------------
(* vocabulary of the properties *)

\* x is a number of [0,1]
InUnit(x) == IsFin(x) /\ Le(Zero, x) /\ Le(x, One)

\* experiment r is a legal record: 0 <= heads <= num_coin_toss, tails >= 0
ValidRecord(r) ==
    /\ 0 <= head_counts[r] /\ head_counts[r] <= num_coin_toss
    /\ tail_counts[r] >= 0

ValidObs == \A r \in 1..num_exp : ValidRecord(r)

AllHeads == \A r \in 1..num_exp : head_counts[r] = num_coin_toss

\* the cell has ended, by the printout or by an exception
Ended == pc \in {"done", "raised"}

\* the E step of experiment i-1 of the current cycle has just been done
AfterEStep == pc = "for" /\ i > 1

\* unit roundoff 2^-MantBits of the floating point format
UnitRoundoff == Fin(2^(MantBits-1), 1 - 2*MantBits)

\* x and y agree up to the rounding of two sums of 2n terms taken in
\* different orders followed by a division: relative difference at most
\* 8 n UnitRoundoff; or both are NaN
Close(x, y, n) ==
    \/ IsNaN(x) /\ IsNaN(y)
    \/ /\ IsFin(x) /\ IsFin(y)
       /\ Le(Abs(Sub(x, y)), Mul(Mul(FromInt(8 * n), UnitRoundoff), Abs(x)))

\* the responsibility-weighted toss count of a coin (an M step denominator)
ZeroMass(expectation) == IsZero(NpSumFlat(Flat(expectation)))

----------------------------------------------------------------------------
(* the claims *)

\* C1: every run with experiments ends in one of the terminal states
\* CONVERGED or MAX_ITER_EXCEEDED: a run whose improvement stays above
\* epsilon ends as MAX_ITER_EXCEEDED, not by an exception.
C1_TerminalStatus ==
    (Ended /\ num_exp > 0) => status \in {"CONVERGED", "MAX_ITER_EXCEEDED"}

\* C2: after each cycle improvement is the maximum of the two absolute
\* differences between the new estimates and the immediately preceding ones,
\* and the loop is left for CONVERGED exactly when improvement <= epsilon
\* (the body runs exactly when improvement > epsilon), in every run over
\* legal experiments.
C2_ImprovementDecides ==
    (num_exp > 0 /\ ValidObs) =>
    /\ (pc = "while" /\ j > 0) =>
          LET dA == Abs(Sub(Slot(pA_heads, j), Slot(pA_heads, j-1)))
              dB == Abs(Sub(Slot(pB_heads, j), Slot(pB_heads, j-1)))
          IN  /\ improvement \in {dA, dB}
              /\ Le(dA, improvement)
              /\ Le(dB, improvement)
    /\ status = "CONVERGED" => Le(improvement, epsilon)
    /\ pc \in {"for", "store", "update"} => Gt(improvement, epsilon)

\* C3: after the E step of a legal experiment under estimates in [0,1], the
\* responsibilities weightA and weightB lie in [0,1] and sum to 1 (up to
\* four units of roundoff).
C3_WeightsNormalised ==
    (AfterEStep /\ ValidRecord(i-1)
        /\ InUnit(Slot(pA_heads, j)) /\ InUnit(Slot(pB_heads, j))) =>
       /\ InUnit(weightA)
       /\ InUnit(weightB)
       /\ Le(Abs(Sub(Add(weightA, weightB), One)),
             Mul(FromInt(4), UnitRoundoff))

\* C4: after every M step of a run over legal experiments from initial
\* guesses in [0,1], the new estimates lie in [0,1].
C4_EstimatesInUnit ==
    (num_exp > 0 /\ ValidObs
        /\ InUnit(Slot(pA_heads, 0)) /\ InUnit(Slot(pB_heads, 0))) =>
       /\ pc = "store" => InUnit(theta_A) /\ InUnit(theta_B)
       /\ pc = "update" =>
             InUnit(Slot(pA_heads, j+1)) /\ InUnit(Slot(pB_heads, j+1))

\* C5: when both likelihoods of a legal experiment are exactly 0, the E step
\* assigns the equal split weightA = weightB = 0.5, never NaN.
C5_EqualSplit ==
    (AfterEStep /\ ValidRecord(i-1) /\ IsZero(lA) /\ IsZero(lB)) =>
       /\ weightA = FromRatio(1, 2)
       /\ weightB = FromRatio(1, 2)

\* C6: when the weighted denominator of a coin is exactly 0, the M step does
\* not divide: the run aborts with ZeroResponsibilityMass and no new estimate
\* is produced in that iteration.
C6_ZeroMassAborts ==
    (num_exp > 0 /\ ValidObs /\ pc \in {"store", "update"}
        /\ (ZeroMass(expectation_A) \/ ZeroMass(expectation_B))) =>
       /\ err = "ZeroResponsibilityMass"
       /\ cycles = j

\* C7: with an illegal experiment record the run is rejected before any
\* computation: no likelihood is evaluated, no estimate is written and the
\* iteration counter stays 0.
C7_InvalidRejected ==
    ~ValidObs =>
       /\ lA = Unset /\ lB = Unset
       /\ theta_A = Unset /\ theta_B = Unset
       /\ \A n \in 1..TraceLen-1 :
             Slot(pA_heads, n) = Zero /\ Slot(pB_heads, n) = Zero
       /\ j = 0
       /\ err \in {"none", "InvalidObservation"}

\* C8: with no experiments the run raises a configuration error: it never
\* enters an M step (whose sums would be empty, a division 0/0) and never
\* ends CONVERGED.
C8_NoExperiments ==
    num_exp = 0 =>
       /\ cycles = 0
       /\ theta_A = Unset /\ theta_B = Unset
       /\ status # "CONVERGED"
       /\ err \in {"none", "ConfigurationError"}

\* C9 as stated: at the final printout the reported estimates are the last
\* written trace entry pA_heads[j], pB_heads[j], and the reported iteration
\* count is the number of cycles executed, at least 1.
C9_ReportedIsTraceEntry ==
    pc = "done" =>
       /\ printed.theta_A = Slot(pA_heads, j)
       /\ printed.theta_B = Slot(pB_heads, j)
       /\ printed.iteration = cycles
       /\ cycles >= 1

\* C9 as amended: at the final printout the reported estimates are those of
\* the last M step, which agree with the last written trace entry up to
\* rounding (or both are NaN); the reported iteration count is j, the number
\* of cycles executed, at least 1; j changes only by +1, once per cycle; and
\* a trace entry written in an earlier cycle never changes.
C9_ReportedResult ==
    /\ [](pc = "done" =>
            /\ printed.theta_A = theta_A /\ printed.theta_B = theta_B
            /\ Close(printed.theta_A, Slot(pA_heads, j), num_exp)
            /\ Close(printed.theta_B, Slot(pB_heads, j), num_exp)
            /\ printed.iteration = j
            /\ j = cycles
            /\ cycles >= 1)
    /\ [][/\ j' # j => (j' = j + 1 /\ cycles = j + 1 /\ cycles' = cycles)
          /\ cycles' # cycles => (cycles' = cycles + 1 /\ j = cycles /\ j' = j)
          /\ \A n \in 0..j : Slot(pA_heads', n) = Slot(pA_heads, n)
                          /\ Slot(pB_heads', n) = Slot(pB_heads, n)]_vars

\* C9 witness: a run of at least two cycles has printed a finite result
\* that is not bit for bit the last trace entry.
C9_Witness ==
    /\ pc = "done"
    /\ printed.iteration >= 2
    /\ IsFin(printed.theta_A)
    /\ printed.theta_A # Slot(pA_heads, j)

\* C10: when every experiment is all heads, the run ends CONVERGED with
\* theta_A = theta_B = 1.0, whatever the initial guesses in [0,1].
C10_AllHeadsConverge ==
    (num_exp > 0 /\ AllHeads /\ Ended) =>
       /\ status = "CONVERGED"
       /\ printed.theta_A = One
       /\ printed.theta_B = One

====
